---- MODULE Spec2Model ----
(***************************************************************************)
(* Model of generate_data.py: the random value generator (RandomData),     *)
(* the seven-field record (DataString), the two serializers (generate_csv, *)
(* generate_xml), the timing wrapper (measure_time) and the two-task       *)
(* driver (__main__).                                                      *)
(*                                                                         *)
(* Text is a sequence of chunks.  A chunk is a one-character string for    *)
(* everything the program computes (digits, punctuation of numbers and     *)
(* timestamps, separators) and a whole literal for the identifiers and the *)
(* XML prologue the program writes as literals.  "\n" is always a chunk of *)
(* its own, so lines are the maximal runs of chunks between "\n" chunks.   *)
(***************************************************************************)
EXTENDS Integers, Sequences, FiniteSets, TLC

VARIABLES
    files,        \* file name -> content (text) of the destination files
    rows,         \* task -> the data_rows argument the driver passes
    task,         \* task -> position, loop counter and locals of the task
    future,       \* task -> state of the future pool.submit returned
    driver,       \* position of the main thread
    log,          \* the set of messages logged so far
    exit_status,  \* -1 while the process runs, else its exit status
    stderr,       \* tasks whose traceback was printed
    record,       \* the DataString last constructed (record specification)
    rv            \* the RandomData last constructed (value specification)

vars == <<files, rows, task, future, driver, log, exit_status, stderr, record, rv>>

\* ------------------------------------------------------------------ bounds

\* The random source is sampled at Grain + 1 evenly spread points of a range.
Grain == 2
\* The row counts handed to the serializers are drawn from -1 .. MaxRows.
MaxRows == 3

RowCounts == (-1) .. MaxRows

\* Sub-second parts (microseconds) a timestamp draw is sampled at: none, a
\* whole number of milliseconds, not a whole number of milliseconds, largest.
MicroSamples == {0, 240000, 123456, 999999}

\* ------------------------------------------------------------------ text

DigitChars == <<"0", "1", "2", "3", "4", "5", "6", "7", "8", "9">>

IsDigit(c) == \E d \in 1..10 : DigitChars[d] = c

DigitValue(c) == (CHOOSE d \in 1..10 : DigitChars[d] = c) - 1

RECURSIVE NatStr(_)
\* decimal digits of a natural number
NatStr(n) == IF n < 10 THEN <<DigitChars[n + 1]>>
             ELSE NatStr(n \div 10) \o <<DigitChars[(n % 10) + 1]>>

\* str(n) of a Python int
IntStr(n) == IF n < 0 THEN <<"-">> \o NatStr(-n) ELSE NatStr(n)

RECURSIVE Pad(_, _)
\* "%0wd" % n for n >= 0
Pad(n, w) == IF w <= 1 THEN NatStr(n)
             ELSE IF Len(NatStr(n)) >= w THEN NatStr(n)
             ELSE <<"0">> \o Pad(n, w - 1)

RECURSIVE ParseNat(_)
\* int(s) of a digit string; -1 when s is empty or holds a non-digit
ParseNat(s) ==
    IF s = <<>> THEN -1
    ELSE IF ~IsDigit(s[Len(s)]) THEN -1
    ELSE IF Len(s) = 1 THEN DigitValue(s[1])
    ELSE LET head == ParseNat(SubSeq(s, 1, Len(s) - 1))
         IN  IF head < 0 THEN -1 ELSE head * 10 + DigitValue(s[Len(s)])

RECURSIVE Join(_, _)
\* sep.join(parts)
Join(parts, sep) ==
    IF parts = <<>> THEN <<>>
    ELSE IF Len(parts) = 1 THEN parts[1]
    ELSE parts[1] \o sep \o Join(Tail(parts), sep)

\* ------------------------------------------------------------- datetime

DaysInMonth == <<31, 28, 31, 30, 31, 30, 31, 31, 30, 31, 30, 31>>

DaysBeforeMonth == <<0, 31, 59, 90, 120, 151, 181, 212, 243, 273, 304, 334>>

IsLeap(y) == y % 4 = 0 /\ (y % 100 # 0 \/ y % 400 = 0)

DaysBeforeYear(y) ==
    LET y1 == y - 1 IN y1 * 365 + (y1 \div 4) - (y1 \div 100) + (y1 \div 400)

\* datetime.toordinal(): day 1 is 0001-01-01
ToOrdinal(dt) ==
    DaysBeforeYear(dt.year) + DaysBeforeMonth[dt.month]
      + (IF dt.month > 2 /\ IsLeap(dt.year) THEN 1 ELSE 0) + dt.day

\* date.fromordinal(n): [year, month, day]
FromOrdinal(ord) ==
    LET n0   == ord - 1
        n400 == n0 \div 146097
        r400 == n0 % 146097
        n100 == r400 \div 36524
        r100 == r400 % 36524
        n4   == r100 \div 1461
        r4   == r100 % 1461
        n1   == r4 \div 365
        n    == r4 % 365
        year == n400 * 400 + 1 + n100 * 100 + n4 * 4 + n1
    IN  IF n1 = 4 \/ n100 = 4
        THEN [year |-> year - 1, month |-> 12, day |-> 31]
        ELSE LET leap   == n1 = 3 /\ (n4 # 24 \/ n100 = 3)
                 m0     == (n + 50) \div 32
                 before(m) == DaysBeforeMonth[m] + (IF m > 2 /\ leap THEN 1 ELSE 0)
                 month  == IF before(m0) > n THEN m0 - 1 ELSE m0
             IN  [year |-> year, month |-> month, day |-> n - before(month) + 1]

\* timedelta(days, seconds, microseconds), normalised as Python keeps it:
\* 0 <= seconds < 86400 and 0 <= microseconds < 1000000
timedelta(days, seconds, microseconds) ==
    LET s2 == seconds + (microseconds \div 1000000)
    IN  [days         |-> days + (s2 \div 86400),
         seconds      |-> s2 % 86400,
         microseconds |-> microseconds % 1000000]

\* a - b of two datetimes
datetime_sub(a, b) ==
    timedelta(ToOrdinal(a) - ToOrdinal(b),
              (a.second + a.minute * 60 + a.hour * 3600)
                - (b.second + b.minute * 60 + b.hour * 3600),
              a.microsecond - b.microsecond)

\* timedelta.total_seconds() of a span that is a whole number of seconds
total_seconds(td) == td.days * 86400 + td.seconds

\* dt + td
datetime_add(dt, td) ==
    LET sum == timedelta(ToOrdinal(dt) + td.days,
                         dt.hour * 3600 + dt.minute * 60 + dt.second + td.seconds,
                         dt.microsecond + td.microseconds)
        ymd == FromOrdinal(sum.days)
    IN  [year |-> ymd.year, month |-> ymd.month, day |-> ymd.day,
         hour   |-> sum.seconds \div 3600,
         minute |-> (sum.seconds % 3600) \div 60,
         second |-> sum.seconds % 60,
         microsecond |-> sum.microseconds]

\* a <= b of two datetimes
datetime_le(a, b) ==
    LET ka == <<a.year, a.month, a.day, a.hour, a.minute, a.second, a.microsecond>>
        kb == <<b.year, b.month, b.day, b.hour, b.minute, b.second, b.microsecond>>
    IN  \/ ka = kb
        \/ \E i \in 1..7 : ka[i] < kb[i] /\ \A j \in 1..(i - 1) : ka[j] = kb[j]

\* str(dt) of a datetime: isoformat(sep=' '), the fraction only when nonzero
datetime_str(dt) ==
    Pad(dt.year, 4) \o <<"-">> \o Pad(dt.month, 2) \o <<"-">> \o Pad(dt.day, 2)
      \o <<" ">> \o Pad(dt.hour, 2) \o <<":">> \o Pad(dt.minute, 2)
      \o <<":">> \o Pad(dt.second, 2)
      \o (IF dt.microsecond # 0 THEN <<".">> \o Pad(dt.microsecond, 6) ELSE <<>>)

\* datetime.strptime(ts, '%Y-%m-%d %H:%M:%S'); ok is FALSE for ValueError
str_to_ts(ts) ==
    LET num(a, b) == IF Len(ts) >= b THEN ParseNat(SubSeq(ts, a, b)) ELSE -1
        y  == num(1, 4)
        mo == num(6, 7)
        d  == num(9, 10)
        h  == num(12, 13)
        mi == num(15, 16)
        s  == num(18, 19)
        shape == /\ Len(ts) = 19
                 /\ ts[5] = "-" /\ ts[8] = "-" /\ ts[11] = " "
                 /\ ts[14] = ":" /\ ts[17] = ":"
        valid == /\ shape
                 /\ y >= 1 /\ mo >= 1 /\ mo <= 12 /\ d >= 1
                 /\ d <= DaysInMonth[mo] + (IF mo = 2 /\ IsLeap(y) THEN 1 ELSE 0)
                 /\ h >= 0 /\ h <= 23 /\ mi >= 0 /\ mi <= 59 /\ s >= 0 /\ s <= 59
    IN  IF valid
        THEN [ok |-> TRUE,
              dt |-> [year |-> y, month |-> mo, day |-> d, hour |-> h,
                      minute |-> mi, second |-> s, microsecond |-> 0]]
        ELSE [ok |-> FALSE, dt |-> <<>>]

\* ------------------------------------------------------------ RandomData

\* the variant with the upper bound included (random.randint)
randrange_inclusive(min, max, u) ==
    IF max < min THEN [raised |-> TRUE, value |-> 0]
    ELSE [raised |-> FALSE,
          value  |-> IF u = Grain THEN max ELSE min + ((max - min) \div Grain) * u]

\* random.randrange(min, max), u the point of the range the source lands on
\* (0 .. Grain; Grain is the last value of the range); ValueError when empty
rand_int(min, max, u) ==
    IF max <= min THEN [raised |-> TRUE, value |-> 0]
    ELSE [raised |-> FALSE,
          value  |-> IF u = Grain THEN max - 1
                     ELSE min + ((max - min) \div Grain) * u]

\* random.uniform(0, b) = 0 + (b - 0) * random(), rounded to microseconds;
\* u.k = Grain is the draw that rounds to the end point b.  No check of b's sign.
uniform(b, u) ==
    LET sgn == IF b < 0 THEN -1 ELSE 1
        mag == sgn * b
    IN  IF u.k = Grain THEN [seconds |-> b, microseconds |-> 0]
        ELSE [seconds      |-> sgn * ((mag \div Grain) * u.k),
              microseconds |-> IF mag = 0 THEN 0 ELSE sgn * u.us]

rand_ts(min, max, u) ==
    LET lo == str_to_ts(min)
        hi == str_to_ts(max)
    IN  IF ~lo.ok \/ ~hi.ok THEN [raised |-> TRUE, value |-> 0]
        ELSE LET delta == total_seconds(datetime_sub(hi.dt, lo.dt))
                 delta_rand == uniform(delta, u)
             IN  [raised |-> FALSE,
                  value  |-> datetime_add(lo.dt,
                                 timedelta(0, delta_rand.seconds, delta_rand.microseconds))]

\* RandomData.rand_value: the strategy by type; None for any other type
rand_value(value_type, min, max, u) ==
    IF value_type = "int" THEN rand_int(min, max, u)
    ELSE IF value_type = "ts" THEN rand_ts(min, max, u)
    ELSE [raised |-> FALSE, value |-> "None"]

\* RandomData(name, type, min, max): raised when rand_value raised
RandomData(name, type, min, max, u) ==
    LET r == rand_value(type, min, max, u)
    IN  [name |-> name, type |-> type, min |-> min, max |-> max,
         raised |-> r.raised, value |-> r.value]

\* str(data.value)
value_str(data) ==
    IF data.type = "int" THEN IntStr(data.value)
    ELSE IF data.type = "ts" THEN datetime_str(data.value)
    ELSE <<"None">>

\* the draws of the random source: one per range for an int, a point of the
\* span and a sub-second part for a timestamp
IntDraws == 0 .. Grain

TsDraws == [k : 0 .. Grain, us : MicroSamples]

MinTs == <<"2", "0", "0", "5", "-", "0", "1", "-", "0", "1", " ",
           "2", "3", ":", "5", "6", ":", "4", "2">>

MaxTs == <<"2", "0", "1", "6", "-", "0", "1", "-", "0", "1", " ",
           "1", "0", ":", "5", "0", ":", "0", "0">>

\* the draws one DataString() consumes, in field order
RecordDraws == IntDraws \X IntDraws \X TsDraws \X IntDraws \X IntDraws
                 \X IntDraws \X IntDraws

\* the seven RandomData(...) constructions of DataString.__init__, in order
\* (start_page takes the defaults type='int', min=1, max=1000000000)
Fields ==
    << [name |-> "start_page", type |-> "int", min |-> 1, max |-> 1000000000],
       [name |-> "user", type |-> "int", min |-> 1, max |-> 100000000],
       [name |-> "ts", type |-> "ts", min |-> MinTs, max |-> MaxTs],
       [name |-> "depth", type |-> "int", min |-> 1, max |-> 50],
       [name |-> "duration", type |-> "int", min |-> 100, max |-> 10000],
       [name |-> "transmit", type |-> "int", min |-> 100000, max |-> 1000000000],
       [name |-> "type", type |-> "int", min |-> 1, max |-> 5] >>

\* DataString().string for the draws us
DataString(us) ==
    [i \in 1..Len(Fields) |->
        RandomData(Fields[i].name, Fields[i].type, Fields[i].min, Fields[i].max, us[i])]

\* DataString.headers()
headers(string) == Join([i \in 1..Len(string) |-> <<string[i].name>>], <<",">>)

\* DataString.values()
values(string) == Join([i \in 1..Len(string) |-> value_str(string[i])], <<",">>)

\* ------------------------------------------------------------- ElementTree

\* ET.Element(tag) / ET.SubElement(parent, tag): text <<>> is None
Element(tag) == [tag |-> tag, text |-> <<>>, children |-> <<>>]

\* ET._escape_cdata, chunk by chunk
escape_cdata(text) ==
    [i \in 1..Len(text) |->
        IF text[i] = "&" THEN "&amp;"
        ELSE IF text[i] = "<" THEN "&lt;"
        ELSE IF text[i] = ">" THEN "&gt;"
        ELSE text[i]]

RECURSIVE serialize_xml(_)
RECURSIVE serialize_all(_)
\* ET._serialize_xml with short_empty_elements=True, no attributes, no tail
serialize_xml(elem) ==
    IF elem.text # <<>> \/ elem.children # <<>>
    THEN <<"<", elem.tag, ">">> \o escape_cdata(elem.text)
           \o serialize_all(elem.children) \o <<"</", elem.tag, ">">>
    ELSE <<"<", elem.tag, " />">>

serialize_all(elems) ==
    IF elems = <<>> THEN <<>>
    ELSE serialize_xml(elems[1]) \o serialize_all(Tail(elems))

\* the variant that hangs the leaves under root, beside the row
add_row_flat(root, string) ==
    [root EXCEPT !.children =
        @ \o <<Element("row")>>
          \o [i \in 1..Len(string) |->
                [Element(string[i].name) EXCEPT !.text = value_str(string[i])]]]

\* the body of the row loop of generate_xml: a row under root, and under the
\* row one leaf per field of the record, in the record's order
add_row(root, string) ==
    [root EXCEPT !.children =
        Append(@, [Element("row") EXCEPT !.children =
            [i \in 1..Len(string) |->
                [Element(string[i].name) EXCEPT !.text = value_str(string[i])]]])]

Prologue == "<?xml version=\"1.0\" encoding=\"UTF-8\"?>"

\* the variant that puts the prologue after the data
rewrite_tail(data) == data \o <<"\n", Prologue>>

\* what the rewrite pass writes back
rewrite(data) == <<Prologue, "\n">> \o data

\* ------------------------------------------------------------------ driver

Tasks == {"csv", "xml"}

CsvFile == "example_data_log.csv"

\* the variant in which both tasks are given the same destination
XmlFileShared == "example_data_log.csv"

XmlFile == "example_data_log.xml"

FileOf(t) == IF t = "csv" THEN CsvFile ELSE XmlFile

Files == {FileOf(t) : t \in Tasks}

Other(t) == IF t = "csv" THEN "xml" ELSE "csv"

\* what a destination may hold before the run: nothing, or an earlier run's output
OldContents == {<<>>, <<"stale">>}

\* the draws the serializers' records are sampled at: every field at the low
\* end of its range with no sub-second part, or every field at the high end
\* side with a sub-second part that is not a whole number of milliseconds
SerialDraws ==
    { <<0, 0, [k |-> 0, us |-> 0], 0, 0, 0, 0>>,
      <<Grain, Grain, [k |-> Grain - 1, us |-> 123456], Grain, Grain, Grain, Grain>> }

\* the DataString() objects the serializers construct, one per draw
SerialRecords == {DataString(us) : us \in SerialDraws}

\* the variant range(0, strings_to_output)
RangeStartZero == 1 - 1

\* first value of range(1, strings_to_output)
RangeStart == 1

\* the variant whose range includes stop
in_range_inclusive(i, stop) == i <= stop

\* whether range(1, stop) yields the value i
in_range(i, stop) == i < stop

\* the inputs of the record and value specifications, before construction
NoRecord == [built |-> FALSE, draws |-> <<>>, string |-> <<>>]

NoValue == [state |-> "none", type |-> "none", min |-> 0, max |-> 0, draw |-> 0,
            value |-> 0]

\* the program before the main thread starts; made counts DataString() calls
Loaded ==
    /\ task = [csv |-> [pc |-> "new", i |-> 0, made |-> 0, error |-> "none"],
               xml |-> [pc |-> "new", i |-> 0, made |-> 0, error |-> "none",
                        root |-> Element("none"), data |-> <<>>]]
    /\ future = [t \in Tasks |-> "none"]
    /\ driver = "start"
    /\ log = {}
    /\ exit_status = -1
    /\ stderr = {}

Init ==
    /\ files \in [Files -> OldContents]
    /\ rows \in [Tasks -> RowCounts]
    /\ Loaded
    /\ record = NoRecord
    /\ rv = NoValue

\* --- the main thread (lines 172-183)

\* logging.basicConfig; log.info('Start'); the pool is entered
DriverStart ==
    /\ driver = "start"
    /\ driver' = "submit_csv"
    /\ log' = log \cup {<<"main", "Start">>}
    /\ UNCHANGED <<files, rows, task, future, exit_status, stderr, record, rv>>

\* pool.submit(generate_csv, ...): the future is queued, its result never read
SubmitCsv ==
    /\ driver = "submit_csv"
    /\ driver' = "submit_xml"
    /\ future' = [future EXCEPT !["csv"] = "pending"]
    /\ UNCHANGED <<files, rows, task, log, exit_status, stderr, record, rv>>

SubmitXml ==
    /\ driver = "submit_xml"
    /\ driver' = "shutdown"
    /\ future' = [future EXCEPT !["xml"] = "pending"]
    /\ UNCHANGED <<files, rows, task, log, exit_status, stderr, record, rv>>

Settled(t) == future[t] \in {"finished", "exception", "cancelled"}

\* leaving the with block: shutdown(wait=True) returns when both workers are idle
PoolExit ==
    /\ driver = "shutdown"
    /\ \A t \in Tasks : Settled(t)
    /\ driver' = "log_done"
    /\ UNCHANGED <<files, rows, task, future, log, exit_status, stderr, record, rv>>

\* log.info('Done') and the end of the script: exit status 0
DriverDone ==
    /\ driver = "log_done"
    /\ driver' = "done"
    /\ log' = log \cup {<<"main", "Done">>}
    /\ exit_status' = 0
    /\ UNCHANGED <<files, rows, task, future, stderr, record, rv>>

\* --- measure_time (lines 123-135) and the worker that runs the task

\* the variant in which a failure cancels the task still waiting in the queue
futures_after_raise_cancel(t) ==
    [o \in Tasks |-> IF o = t THEN "exception"
                     ELSE IF future[o] = "pending" THEN "cancelled" ELSE future[o]]

\* the futures after task t raised: the exception is stored in t's future
futures_after_raise(t) == [future EXCEPT ![t] = "exception"]

\* the task after an exception left func and wrapper
Raised(t, error) == [task EXCEPT ![t].pc = "failed", ![t].error = error]

\* whether constructing the record raised
Raises(string) == \E k \in 1..Len(string) : string[k].raised

\* an exception leaves func and wrapper (no handler, no 'Ended at' line)
Raise(t, error) ==
    /\ task' = Raised(t, error)
    /\ future' = futures_after_raise(t)
    /\ UNCHANGED <<log>>

\* a worker takes the task: wrapper logs 'Now runs', 'Started at', calls func
WrapperEnter(t) ==
    /\ future[t] = "pending"
    /\ future' = [future EXCEPT ![t] = "running"]
    /\ log' = log \cup {<<t, "Now runs">>, <<t, "Started at">>}
    /\ task' = [task EXCEPT ![t].pc = "begin"]
    /\ UNCHANGED <<files, rows, driver, exit_status, stderr, record, rv>>

\* func returned: wrapper logs 'Ended at', 'Duration'; the future is finished
WrapperExit(t) ==
    /\ task[t].pc = "return"
    /\ task' = [task EXCEPT ![t].pc = "done"]
    /\ future' = [future EXCEPT ![t] = "finished"]
    /\ log' = log \cup {<<t, "Ended at">>, <<t, "Duration">>}
    /\ UNCHANGED <<files, rows, driver, exit_status, stderr, record, rv>>

\* --- generate_csv (lines 138-147)

\* open(file, 'w'): the destination is created or truncated, or OSError
csv_open ==
    /\ task.csv.pc = "begin"
    /\ \/ /\ files' = [files EXCEPT ![FileOf("csv")] = <<>>]
          /\ task' = [task EXCEPT !["csv"].pc = "header"]
          /\ UNCHANGED <<future, log>>
       \/ /\ Raise("csv", "OSError")
          /\ UNCHANGED files
    /\ UNCHANGED <<rows, driver, exit_status, stderr, record, rv>>

\* output.write(DataString().headers()), then the loop starts
csv_header ==
    /\ task.csv.pc = "header"
    /\ \/ \E string \in SerialRecords :
            /\ files' = IF Raises(string) THEN files
                        ELSE [files EXCEPT ![FileOf("csv")] = @ \o headers(string)]
            /\ task' = IF Raises(string) THEN Raised("csv", "ValueError")
                       ELSE [task EXCEPT !["csv"].pc = "loop",
                                         !["csv"].made = @ + 1,
                                         !["csv"].i = RangeStart]
            /\ future' = IF Raises(string) THEN futures_after_raise("csv") ELSE future
            /\ UNCHANGED log
       \/ /\ Raise("csv", "OSError")
          /\ UNCHANGED files
    /\ UNCHANGED <<rows, driver, exit_status, stderr, record, rv>>

\* one pass of the loop: output.write('\n' + DataString().values())
csv_row ==
    /\ task.csv.pc = "loop"
    /\ in_range(task.csv.i, rows.csv)
    /\ \/ \E string \in SerialRecords :
            /\ files' = IF Raises(string) THEN files
                        ELSE [files EXCEPT ![FileOf("csv")] =
                                 @ \o <<"\n">> \o values(string)]
            /\ task' = IF Raises(string) THEN Raised("csv", "ValueError")
                       ELSE [task EXCEPT !["csv"].i = @ + 1,
                                         !["csv"].made = @ + 1]
            /\ future' = IF Raises(string) THEN futures_after_raise("csv") ELSE future
            /\ UNCHANGED log
       \/ /\ Raise("csv", "OSError")
          /\ UNCHANGED files
    /\ UNCHANGED <<rows, driver, exit_status, stderr, record, rv>>

\* the range is exhausted: the with block closes the file and func returns
csv_close ==
    /\ task.csv.pc = "loop"
    /\ ~in_range(task.csv.i, rows.csv)
    /\ task' = [task EXCEPT !["csv"].pc = "return"]
    /\ UNCHANGED <<files, rows, future, driver, log, exit_status, stderr, record, rv>>

generate_csv == csv_open \/ csv_header \/ csv_row \/ csv_close

\* --- generate_xml (lines 150-169)

\* root = ET.Element('root'), then the loop starts
xml_root ==
    /\ task.xml.pc = "begin"
    /\ task' = [task EXCEPT !["xml"].pc = "build",
                            !["xml"].root = Element("root"),
                            !["xml"].i = RangeStart]
    /\ UNCHANGED <<files, rows, future, driver, log, exit_status, stderr, record, rv>>

\* one pass of the loop: a row element with the seven leaves of a fresh record
xml_row ==
    /\ task.xml.pc = "build"
    /\ in_range(task.xml.i, rows.xml)
    /\ \E string \in SerialRecords :
         /\ task' = IF Raises(string) THEN Raised("xml", "ValueError")
                    ELSE [task EXCEPT !["xml"].root = add_row(@, string),
                                      !["xml"].made = @ + 1,
                                      !["xml"].i = @ + 1]
         /\ future' = IF Raises(string) THEN futures_after_raise("xml") ELSE future
         /\ UNCHANGED log
    /\ UNCHANGED <<files, rows, driver, exit_status, stderr, record, rv>>

\* the range is exhausted: tree = ET.ElementTree(root)
xml_tree ==
    /\ task.xml.pc = "build"
    /\ ~in_range(task.xml.i, rows.xml)
    /\ task' = [task EXCEPT !["xml"].pc = "write_open"]
    /\ UNCHANGED <<files, rows, future, driver, log, exit_status, stderr, record, rv>>

\* tree.write(file) opens the destination for writing, or OSError
xml_write_open ==
    /\ task.xml.pc = "write_open"
    /\ \/ /\ files' = [files EXCEPT ![FileOf("xml")] = <<>>]
          /\ task' = [task EXCEPT !["xml"].pc = "write"]
          /\ UNCHANGED <<future, log>>
       \/ /\ Raise("xml", "OSError")
          /\ UNCHANGED files
    /\ UNCHANGED <<rows, driver, exit_status, stderr, record, rv>>

\* tree.write(file) serializes the tree (no declaration) and closes the file
xml_write ==
    /\ task.xml.pc = "write"
    /\ \/ /\ files' = [files EXCEPT ![FileOf("xml")] = @ \o serialize_xml(task.xml.root)]
          /\ task' = [task EXCEPT !["xml"].pc = "read"]
          /\ UNCHANGED <<future, log>>
       \/ /\ Raise("xml", "OSError")
          /\ UNCHANGED files
    /\ UNCHANGED <<rows, driver, exit_status, stderr, record, rv>>

\* with open(file, 'r') as original: data = original.read()
xml_read ==
    /\ task.xml.pc = "read"
    /\ \/ /\ task' = [task EXCEPT !["xml"].pc = "reopen",
                                  !["xml"].data = files[FileOf("xml")]]
          /\ UNCHANGED <<future, log>>
       \/ Raise("xml", "OSError")
    /\ UNCHANGED <<files, rows, driver, exit_status, stderr, record, rv>>

\* with open(file, 'w') as modified: the destination is truncated, or OSError
xml_reopen ==
    /\ task.xml.pc = "reopen"
    /\ \/ /\ files' = [files EXCEPT ![FileOf("xml")] = <<>>]
          /\ task' = [task EXCEPT !["xml"].pc = "prologue"]
          /\ UNCHANGED <<future, log>>
       \/ /\ Raise("xml", "OSError")
          /\ UNCHANGED files
    /\ UNCHANGED <<rows, driver, exit_status, stderr, record, rv>>

\* modified.write(prologue + '\n' + data); the file is closed and func returns
xml_prologue ==
    /\ task.xml.pc = "prologue"
    /\ \/ /\ files' = [files EXCEPT ![FileOf("xml")] = @ \o rewrite(task.xml.data)]
          /\ task' = [task EXCEPT !["xml"].pc = "return"]
          /\ UNCHANGED <<future, log>>
       \/ /\ Raise("xml", "OSError")
          /\ UNCHANGED files
    /\ UNCHANGED <<rows, driver, exit_status, stderr, record, rv>>

generate_xml ==
    \/ xml_root \/ xml_row \/ xml_tree \/ xml_write_open \/ xml_write
    \/ xml_read \/ xml_reopen \/ xml_prologue

\* the steps of the worker thread that runs generate_csv
CsvWorker == WrapperEnter("csv") \/ generate_csv \/ WrapperExit("csv")

\* the steps of the worker thread that runs generate_xml
XmlWorker == WrapperEnter("xml") \/ generate_xml \/ WrapperExit("xml")

Main == DriverStart \/ SubmitCsv \/ SubmitXml \/ PoolExit \/ DriverDone

Next == Main \/ CsvWorker \/ XmlWorker

Spec == Init /\ [][Next]_vars

\* the interpreter runs every thread that can run
SpecFair ==
    Spec /\ WF_vars(Main) /\ WF_vars(CsvWorker) /\ WF_vars(XmlWorker)

\* ------------------------------------------- one record, one random value

\* DataString() on its own: the draws are the input, construction the action
InitRecord ==
    /\ files = [f \in Files |-> <<>>]
    /\ rows = [t \in Tasks |-> 1]
    /\ Loaded
    /\ record \in [built : {FALSE}, draws : RecordDraws, string : {<<>>}]
    /\ rv = NoValue

NewDataString ==
    /\ ~record.built
    /\ LET string == DataString(record.draws)
       IN  record' = IF Raises(string)
                     THEN record
                     ELSE [record EXCEPT !.built = TRUE, !.string = string]
    /\ UNCHANGED <<files, rows, task, future, driver, log, exit_status, stderr, rv>>

SpecRecord == InitRecord /\ [][NewDataString]_vars

\* bounds handed to RandomData(name, type, min, max) on its own
IntBounds == {1, 2, 5, 50}

TsBounds ==
    { MinTs, MaxTs,
      <<"2", "0", "0", "5", "-", "0", "1", "-", "0", "1", " ",
        "2", "3", ":", "5", "6", ":", "4", "3">>,
      <<"2", "0", "0", "5", "-", "0", "3", "-", "0", "1", " ",
        "0", "0", ":", "0", "0", ":", "0", "0">>,
      <<"2", "0", "0", "5", "-", "1", "3", "-", "0", "1", " ",
        "0", "0", ":", "0", "0", ":", "0", "0">> }

InitValue ==
    /\ files = [f \in Files |-> <<>>]
    /\ rows = [t \in Tasks |-> 1]
    /\ Loaded
    /\ record = NoRecord
    /\ \/ rv \in [state : {"input"}, type : {"int", "float"}, min : IntBounds,
                  max : IntBounds, draw : IntDraws, value : {0}]
       \/ rv \in [state : {"input"}, type : {"ts"}, min : TsBounds,
                  max : TsBounds, draw : TsDraws, value : {0}]

\* RandomData.__init__: self.value = RandomData.rand_value(type, min, max);
\* an exception of rand_value leaves no object
NewRandomData ==
    /\ rv.state = "input"
    /\ LET data == RandomData("name", rv.type, rv.min, rv.max, rv.draw)
       IN  rv' = [rv EXCEPT !.state = IF data.raised THEN "raised" ELSE "built",
                            !.value = IF data.raised THEN 0 ELSE data.value]
    /\ UNCHANGED <<files, rows, task, future, driver, log, exit_status, stderr, record>>

SpecValue == InitValue /\ [][NewRandomData]_vars

\* ------------------------------------------------- reading the outputs back

RECURSIVE Split(_, _)
\* text.split(sep): the runs of chunks between the sep chunks
Split(text, sep) ==
    IF \A i \in 1..Len(text) : text[i] # sep THEN <<text>>
    ELSE LET p == CHOOSE i \in 1..Len(text) :
                      text[i] = sep /\ \A j \in 1..(i - 1) : text[j] # sep
         IN  <<SubSeq(text, 1, p - 1)>> \o Split(SubSeq(text, p + 1, Len(text)), sep)

Markup == {"<", "</", ">", " />"}

\* the chunks from position i up to the next markup chunk
TextEnd(s, i) ==
    IF \E j \in i..Len(s) : s[j] \in Markup
    THEN CHOOSE j \in i..Len(s) : s[j] \in Markup /\ \A k \in i..(j - 1) : s[k] \notin Markup
    ELSE Len(s) + 1

NoParse == [ok |-> FALSE, elems |-> <<>>, next |-> 0]

RECURSIVE ParseElements(_, _)
\* the sibling elements that start at position i of s, up to a closing tag
\* or the end of s: [ok, elems, next]
ParseElements(s, i) ==
    IF i > Len(s) \/ s[i] = "</" THEN [ok |-> TRUE, elems |-> <<>>, next |-> i]
    ELSE IF s[i] # "<" \/ i + 2 > Len(s) \/ s[i + 1] \in Markup THEN NoParse
    ELSE IF s[i + 2] = " />"
    THEN LET rest == ParseElements(s, i + 3)
         IN  IF ~rest.ok THEN NoParse
             ELSE [ok |-> TRUE, elems |-> <<Element(s[i + 1])>> \o rest.elems,
                   next |-> rest.next]
    ELSE IF s[i + 2] # ">" THEN NoParse
    ELSE LET t    == TextEnd(s, i + 3)
             kids == ParseElements(s, t)
             c    == kids.next
         IN  IF ~kids.ok \/ c + 2 > Len(s) THEN NoParse
             ELSE IF s[c] # "</" \/ s[c + 1] # s[i + 1] \/ s[c + 2] # ">" THEN NoParse
             ELSE LET rest == ParseElements(s, c + 3)
                  IN  IF ~rest.ok THEN NoParse
                      ELSE [ok |-> TRUE,
                            elems |-> <<[tag |-> s[i + 1],
                                         text |-> SubSeq(s, i + 3, t - 1),
                                         children |-> kids.elems]>> \o rest.elems,
                            next |-> rest.next]

\* the document element of an XML text that starts with the prologue line
ParseDocument(s) ==
    IF Len(s) < 2 \/ s[1] # Prologue \/ s[2] # "\n" THEN NoParse
    ELSE LET p == ParseElements(s, 3)
         IN  IF p.ok /\ p.next = Len(s) + 1 /\ Len(p.elems) = 1 THEN p ELSE NoParse

HeaderLine ==
    <<"start_page", ",", "user", ",", "ts", ",", "depth", ",", "duration", ",",
      "transmit", ",", "type">>

LeafNames == <<"start_page", "user", "ts", "depth", "duration", "transmit", "type">>

\* the texts of the seven fields of the records the serializers can draw
RecordTexts ==
    { [k \in 1..7 |-> value_str(string[k])] : string \in SerialRecords }

IsDigits(text) == text # <<>> /\ \A i \in 1..Len(text) : IsDigit(text[i])

\* a CSV data line: seven comma-separated fields, the texts of one record
IsDataLine(line) ==
    LET f == Split(line, ",")
    IN  /\ Len(f) = 7
        /\ \A k \in {1, 2, 4, 5, 6, 7} : IsDigits(f[k])
        /\ f \in RecordTexts

\* a row element: seven leaves, named in order, holding one record's texts
IsRowElement(e) ==
    /\ e.tag = "row"
    /\ e.text = <<>>
    /\ Len(e.children) = 7
    /\ \A k \in 1..7 : e.children[k].tag = LeafNames[k] /\ e.children[k].children = <<>>
    /\ [k \in 1..7 |-> e.children[k].text] \in RecordTexts

\* the flat output of a request for n rows: a header and max(n - 1, 0) data lines
CsvComplete(text, n) ==
    LET lines == Split(text, "\n")
        want  == IF n >= 1 THEN n ELSE 1
    IN  /\ Len(lines) = want
        /\ lines[1] = HeaderLine
        /\ \A i \in 2..Len(lines) : IsDataLine(lines[i])

\* the nested output of a request for n rows: a root of max(n - 1, 0) rows
XmlComplete(text, n) ==
    LET doc == ParseDocument(text)
        want == IF n >= 1 THEN n - 1 ELSE 0
    IN  /\ doc.ok
        /\ doc.elems[1].tag = "root"
        /\ doc.elems[1].text = <<>>
        /\ Len(doc.elems[1].children) = want
        /\ \A i \in 1..want : IsRowElement(doc.elems[1].children[i])

Done(t) == task[t].pc = "done"

Failed(t) == task[t].pc = "failed"

\* ------------------------------------------------------------------ claims

\* C1: for every row count N >= 1, once generate_csv(file, N) has completed the
\* destination holds one header line and N - 1 data lines (N lines in all),
\* every data line the values of a record, N records having been constructed
\* (one per line), lines separated by one newline and no newline at the end.
C1_CsvHeaderAndRows ==
    (Done("csv") /\ rows.csv >= 1) =>
        LET lines == Split(files[CsvFile], "\n")
        IN  /\ Len(lines) = rows.csv
            /\ lines[1] = HeaderLine
            /\ \A i \in 2..Len(lines) : IsDataLine(lines[i])
            /\ task.csv.made = rows.csv
            /\ files[CsvFile][Len(files[CsvFile])] # "\n"

\* C1 witness: a request for three rows has completed with two data lines that
\* differ
C1_Witness ==
    /\ Done("csv") /\ rows.csv = 3
    /\ LET lines == Split(files[CsvFile], "\n")
       IN  Len(lines) = 3 /\ lines[2] # lines[3]

Occurrences(text, chunk) == Cardinality({i \in 1..Len(text) : text[i] = chunk})

\* C3: whenever generate_xml has completed, the destination holds the prologue
\* line followed by the tree exactly as the tree writer serialized it: the
\* prologue occurs once, at the start, and what the rewrite pass read back and
\* wrote again is the first pass's output, chunk for chunk.
C3_PrologueThenTree ==
    /\ task.xml.pc \in {"reopen", "prologue", "return", "done"} =>
           task.xml.data = serialize_xml(task.xml.root)
    /\ task.xml.pc \in {"return", "done"} =>
           /\ files[XmlFile] = <<Prologue, "\n">> \o serialize_xml(task.xml.root)
           /\ files[XmlFile][1] = Prologue
           /\ Occurrences(files[XmlFile], Prologue) = 1

\* C3 witness: the rewrite has completed on a tree that holds a row
C3_Witness ==
    /\ Done("xml")
    /\ Len(task.xml.root.children) >= 1
    /\ Len(files[XmlFile]) = Len(task.xml.data) + 2

\* the declared window of the ts field
TsLow == [year |-> 2005, month |-> 1, day |-> 1, hour |-> 23, minute |-> 56,
          second |-> 42, microsecond |-> 0]

TsHigh == [year |-> 2016, month |-> 1, day |-> 1, hour |-> 10, minute |-> 50,
           second |-> 0, microsecond |-> 0]

FieldValue(k) == record.string[k].value

\* C4: in every record constructed, every integer field satisfies
\* min <= value < max for its declared bounds and the ts field lies in
\* 2005-01-01 23:56:42 .. 2016-01-01 10:50:00, both ends included.
C4_FieldsInBounds ==
    record.built =>
        /\ Len(record.string) = 7
        /\ 1 <= FieldValue(1) /\ FieldValue(1) < 1000000000
        /\ 1 <= FieldValue(2) /\ FieldValue(2) < 100000000
        /\ datetime_le(TsLow, FieldValue(3)) /\ datetime_le(FieldValue(3), TsHigh)
        /\ 1 <= FieldValue(4) /\ FieldValue(4) < 50
        /\ 100 <= FieldValue(5) /\ FieldValue(5) < 10000
        /\ 100000 <= FieldValue(6) /\ FieldValue(6) < 1000000000
        /\ 1 <= FieldValue(7) /\ FieldValue(7) < 5

\* C4 witness: a record whose integer fields sit on the last value of their
\* ranges and whose timestamp is the upper end of its window
C4_Witness ==
    /\ record.built
    /\ FieldValue(1) = 999999999 /\ FieldValue(4) = 49 /\ FieldValue(7) = 4
    /\ FieldValue(3) = TsHigh

\* a text of the form YYYY-MM-DD HH:MM:SS.mmm
IsMilliText(text) ==
    /\ Len(text) = 23
    /\ \A i \in {1, 2, 3, 4, 6, 7, 9, 10, 12, 13, 15, 16, 18, 19, 21, 22, 23} :
           IsDigit(text[i])
    /\ text[5] = "-" /\ text[8] = "-" /\ text[11] = " "
    /\ text[14] = ":" /\ text[17] = ":" /\ text[20] = "."

\* C5: for every timestamp the generator can draw, its text in values() and in
\* the nested leaf element has the form YYYY-MM-DD HH:MM:SS.mmm: exactly three
\* fractional-second digits.
C5_TsThreeFractionDigits ==
    record.built =>
        /\ IsMilliText(Split(values(record.string), ",")[3])
        /\ IsMilliText(add_row(Element("root"), record.string).children[1].children[3].text)

\* C6: every invalid range is fatal: a RandomData of type int with max <= min,
\* or of type ts with max < min, raises and never yields a value.
C6_InvalidRangeRaises ==
    LET reversed == /\ str_to_ts(rv.min).ok /\ str_to_ts(rv.max).ok
                    /\ ~datetime_le(str_to_ts(rv.min).dt, str_to_ts(rv.max).dt)
    IN  /\ (rv.type = "int" /\ rv.max <= rv.min) => rv.state # "built"
        /\ (rv.type = "ts" /\ reversed) => rv.state # "built"

WritesOwnFile(t) ==
    task'[t] # task[t] => files'[FileOf(Other(t))] = files[FileOf(Other(t))]

\* C7: with the two tasks on the two worker threads and distinct destinations,
\* under every interleaving each task's steps change only its own destination,
\* and once both have finished the CSV destination holds the header and
\* N - 1 data lines and the XML destination a root of M - 1 rows.
C7_DisjointDestinations ==
    /\ []((Done("csv") /\ Done("xml")) =>
            /\ CsvComplete(files[CsvFile], rows.csv)
            /\ XmlComplete(files[XmlFile], rows.xml))
    /\ [][\A t \in Tasks : WritesOwnFile(t)]_vars

\* C7 witness: both tasks have finished, the CSV task with two data lines and
\* the XML task with one row in their destinations
C7_Witness ==
    /\ Done("csv") /\ Done("xml")
    /\ rows.csv = 3 /\ rows.xml = 2
    /\ files[CsvFile] # <<>> /\ files[XmlFile] # <<>>

Complete(t) ==
    IF t = "csv" THEN CsvComplete(files[CsvFile], rows.csv)
    ELSE XmlComplete(files[XmlFile], rows.xml)

\* the step in which t fails leaves the other task, its future and its
\* destination as they were
FailureIsLocal(t) ==
    (Failed(t)' /\ ~Failed(t)) =>
        /\ task'[Other(t)] = task[Other(t)]
        /\ future'[Other(t)] = future[Other(t)]
        /\ files'[FileOf(Other(t))] = files[FileOf(Other(t))]

\* C8: if one of the two submitted tasks fails, at any point, the other is
\* unaffected: it is never cancelled, it is still started and runs until it has
\* completed (or has failed of its own I/O error), and when it has completed
\* its destination is complete and well-formed.
C8_FailureLeavesOtherTask ==
    /\ [](\A t \in Tasks :
            /\ future[t] # "cancelled"
            /\ (Failed(t) /\ Done(Other(t))) => Complete(Other(t)))
    /\ [][\A t \in Tasks : FailureIsLocal(t)]_vars
    /\ (\E t \in Tasks : Failed(t)) ~> (\A t \in Tasks : Done(t) \/ Failed(t))

\* C8 witness: the CSV task failed before the XML task was started, and the XML
\* task has completed with a row in its destination
C8_Witness ==
    /\ Failed("csv") /\ task.csv.i = 0
    /\ Done("xml") /\ rows.xml = 2
    /\ XmlComplete(files[XmlFile], rows.xml)

\* C9: whenever a task the driver submitted has failed, the process surfaces
\* the error: the driver never reaches its 'Done' end with exit status 0 while
\* a task's failure is unreported.
C9_FailureSurfaced ==
    (driver = "done" /\ exit_status = 0) =>
        \A t \in Tasks : future[t] = "exception" => t \in stderr

\* C10: for every row count N <= 1, zero and negative counts included, both
\* serializers complete without an error of their own and emit no record: the
\* CSV destination holds the header line only and the XML destination the
\* prologue line and an empty root, the same for every such N.
C10_NoRecordsForSmallCounts ==
    /\ \A t \in Tasks : rows[t] <= 1 => task[t].error \in {"none", "OSError"}
    /\ (rows.csv <= 1 /\ Done("csv")) =>
           /\ files[CsvFile] = HeaderLine
           /\ task.csv.made = 1
    /\ (rows.xml <= 1 /\ Done("xml")) =>
           /\ files[XmlFile] = <<Prologue, "\n", "<", "root", " />">>
           /\ task.xml.made = 0

\* C10 witness: a negative and a zero row count, both serializers completed
C10_Witness ==
    /\ rows.csv = -1 /\ Done("csv")
    /\ rows.xml = 0 /\ Done("xml")

====
